---- MODULE Spec2Model ----
(***************************************************************************)
(* Cache<K, V>::get_or_insert_with (src/src/lib.rs).                       *)
(*                                                                         *)
(* The cache is two maps: inner, an RwLock<HashMap<K, V>> holding the      *)
(* committed values, and locker, a Mutex<HashMap<K, Arc<Mutex<()>>>>       *)
(* holding one small mutex per key.  Every thread runs get_or_insert_with  *)
(* as a sequence of atomic steps: one per lock acquisition and per access  *)
(* to a map; the guards a return or the end of a block drops are dropped   *)
(* in one step.  pc[t] names the source line thread t is about to execute, *)
(* "in_f" the inside of the closure.                                       *)
(*                                                                         *)
(* std::sync::Mutex is poisoning: a guard dropped while its thread unwinds *)
(* from a panic marks the mutex poisoned, and lock() on a poisoned mutex   *)
(* returns Err, which the code unwrap()s.  The closure f is the only user  *)
(* code that panics here: Clone, Hash and Eq of K and V do not.            *)
(***************************************************************************)
EXTENDS Naturals, FiniteSets, Sequences

NumThreads == 3
NumKeys == 2

Threads == 1..NumThreads
Keys == 1..NumKeys

\* Option::None for a V, a handle or a thread.
None == 0

\* The key whose closure may block for ever (test cache_no_block_disjoint, T1).
HungKey == 1

\* What the closure f passed by thread t returns for key k.  Every thread
\* passes a closure with a result of its own, so that a value names the
\* invocation that produced it.
F(t, k) == t

VARIABLES
    inner,         \* HashMap<K, V> inside self.inner: key -> value or None
    innerReaders,  \* threads holding a read guard of self.inner
    innerWriter,   \* thread holding the write guard of self.inner, or None
    locker,        \* HashMap<K, Arc<Mutex<()>>> inside self.locker: key -> handle or None
    lockerHeld,    \* thread holding the guard of self.locker, or None
    mutexes,       \* the Mutex<()> objects allocated so far: handle -> [owner, poisoned]
    pc,            \* per thread: the line it is about to execute
    key,           \* per thread: the argument key
    lock_k,        \* per thread: the local lock_k (a handle) or None
    v,             \* per thread: the local v (lines 18, 32, 35)
    ret,           \* per thread: the value the finished call returned
    err,           \* per thread: why the call unwound: "none", "compute", "poison"
    invoked,       \* per thread: invocations of f by its call
    prior,         \* per thread: the value an earlier call had returned for key when this call began
    busy,          \* some call for another key than HungKey began while a closure for HungKey was running
    ncompute,      \* per key: invocations of f so far
    nreturned,     \* per key: invocations of f that returned
    nfail,         \* per key: invocations of f that panicked
    ncommit,       \* per key: inserts into inner
    nret,          \* per key: calls that returned a value
    firstRet,      \* per key: the value the first returning call returned, or None
    parent         \* per thread: the thread whose closure made this call, or None

vars == <<inner, innerReaders, innerWriter, locker, lockerHeld, mutexes, pc, key,
          lock_k, v, ret, err, invoked, prior, busy, ncompute, nreturned, nfail,
          ncommit, nret, firstRet, parent>>

cacheVars == <<inner, innerReaders, innerWriter, locker, lockerHeld, mutexes>>
histVars == <<ncompute, nreturned, nfail, ncommit, nret, firstRet>>

\* Cache::default(): both maps empty, no lock held, no thread inside a call.
Init ==
    /\ inner = [k \in Keys |-> None]
    /\ innerReaders = {}
    /\ innerWriter = None
    /\ locker = [k \in Keys |-> None]
    /\ lockerHeld = None
    /\ mutexes = <<>>
    /\ pc = [t \in Threads |-> "idle"]
    /\ key = [t \in Threads |-> None]
    /\ lock_k = [t \in Threads |-> None]
    /\ v = [t \in Threads |-> None]
    /\ ret = [t \in Threads |-> None]
    /\ err = [t \in Threads |-> "none"]
    /\ invoked = [t \in Threads |-> 0]
    /\ prior = [t \in Threads |-> None]
    /\ busy = FALSE
    /\ ncompute = [k \in Keys |-> 0]
    /\ nreturned = [k \in Keys |-> 0]
    /\ nfail = [k \in Keys |-> 0]
    /\ ncommit = [k \in Keys |-> 0]
    /\ nret = [k \in Keys |-> 0]
    /\ firstRet = [k \in Keys |-> None]
    /\ parent = [t \in Threads |-> None]

\* Thread t enters get_or_insert_with(k, f).  Every thread makes one call; a
\* second call of a thread is the call of a thread that starts later.
Call(t) ==
    /\ pc[t] = "idle"
    /\ \E k \in Keys :
        /\ key' = [key EXCEPT ![t] = k]
        /\ prior' = [prior EXCEPT ![t] = firstRet[k]]
        /\ busy' = (\/ busy
                     \/ /\ k # HungKey
                        /\ \E a \in Threads : pc[a] = "in_f" /\ key[a] = HungKey)
    /\ pc' = [pc EXCEPT ![t] = "l18"]
    /\ UNCHANGED <<cacheVars, histVars, lock_k, v, ret, err, invoked, parent>>

\* self.inner.read(): granted when no writer holds the RwLock.
ReadLock(t) ==
    /\ innerWriter = None
    /\ innerReaders' = innerReaders \cup {t}

\* Dropping a read guard of self.inner.
ReadUnlock(t) ==
    innerReaders' = innerReaders \ {t}

\* Lookup that never finds a value.
LookupNeverFound(k) == None

\* Lookup that yields a default value for an absent key.
LookupOrDefault(k) == IF inner[k] = None THEN F(1, k) ELSE inner[k]

\* HashMap::get(&key).cloned() on the value map.
Lookup(k) == inner[k]

\* Line 18 with the handle of the key's small lock cloned on a hit.
FastReadCloningHandle(t) ==
    /\ pc[t] = "l18"
    /\ ReadLock(t)
    /\ IF Lookup(key[t]) # None
       THEN /\ v' = [v EXCEPT ![t] = Lookup(key[t])]
            /\ lock_k' = [lock_k EXCEPT ![t] = locker[key[t]]]
            /\ pc' = [pc EXCEPT ![t] = "l19"]
       ELSE /\ pc' = [pc EXCEPT ![t] = "l20"]
            /\ UNCHANGED <<v, lock_k>>
    /\ UNCHANGED <<inner, innerWriter, locker, lockerHeld, mutexes, key, ret, err,
                   invoked, prior, busy, parent, histVars>>

\* Line 18: read lock, get(&key).cloned(); the guard lives to the end of the if-let.
FastRead(t) ==
    /\ pc[t] = "l18"
    /\ ReadLock(t)
    /\ IF Lookup(key[t]) # None
       THEN /\ v' = [v EXCEPT ![t] = Lookup(key[t])]
            /\ pc' = [pc EXCEPT ![t] = "l19"]
       ELSE /\ pc' = [pc EXCEPT ![t] = "l20"]
            /\ v' = v
    /\ UNCHANGED <<inner, innerWriter, locker, lockerHeld, mutexes, key, lock_k, ret,
                   err, invoked, prior, busy, parent, histVars>>

\* A call returns value x for its key: the bookkeeping of returned values.
Returned(t, x) ==
    /\ ret' = [ret EXCEPT ![t] = x]
    /\ nret' = [nret EXCEPT ![key[t]] = @ + 1]
    /\ firstRet' = [firstRet EXCEPT ![key[t]] = IF @ = None THEN x ELSE @]

\* Line 19: return v, dropping the read guard.
FastReturn(t) ==
    /\ pc[t] = "l19"
    /\ ReadUnlock(t)
    /\ Returned(t, v[t])
    /\ pc' = [pc EXCEPT ![t] = "done"]
    /\ UNCHANGED <<inner, innerWriter, locker, lockerHeld, mutexes, key, lock_k, v,
                   err, invoked, prior, busy, parent, ncompute, nreturned, nfail, ncommit>>

\* Line 20: the key was absent; the read guard is dropped at the end of the if-let.
FastMiss(t) ==
    /\ pc[t] = "l20"
    /\ ReadUnlock(t)
    /\ pc' = [pc EXCEPT ![t] = "l22"]
    /\ UNCHANGED <<inner, innerWriter, locker, lockerHeld, mutexes, key, lock_k, v,
                   ret, err, invoked, prior, busy, parent, histVars>>

\* Line 22 taking the map without excluding the other threads.
LockerLockNotExclusive(t) ==
    /\ pc[t] = "l22"
    /\ lockerHeld' = t
    /\ pc' = [pc EXCEPT ![t] = "l23"]
    /\ UNCHANGED <<inner, innerReaders, innerWriter, locker, mutexes, key, lock_k, v,
                   ret, err, invoked, prior, busy, parent, histVars>>

\* Line 22: self.locker.lock().unwrap().
LockerLock(t) ==
    /\ pc[t] = "l22"
    /\ lockerHeld = None
    /\ lockerHeld' = t
    /\ pc' = [pc EXCEPT ![t] = "l23"]
    /\ UNCHANGED <<inner, innerReaders, innerWriter, locker, mutexes, key, lock_k, v,
                   ret, err, invoked, prior, busy, parent, histVars>>

\* Lines 23-24 with one small lock for all the keys: any lock of the map is taken.
LockerGetAnyKey(t) ==
    /\ pc[t] = "l23"
    /\ IF mutexes # <<>>
       THEN /\ lock_k' = [lock_k EXCEPT ![t] = 1]
            /\ lockerHeld' = None
            /\ pc' = [pc EXCEPT ![t] = "l31"]
       ELSE /\ pc' = [pc EXCEPT ![t] = "l26"]
            /\ UNCHANGED <<lock_k, lockerHeld>>
    /\ UNCHANGED <<inner, innerReaders, innerWriter, locker, mutexes, key, v, ret, err,
                   invoked, prior, busy, parent, histVars>>

\* Lines 23-24 with the guard of self.locker kept alive after the block.
LockerGetKeepsGuard(t) ==
    /\ pc[t] = "l23"
    /\ IF locker[key[t]] # None
       THEN /\ lock_k' = [lock_k EXCEPT ![t] = locker[key[t]]]
            /\ pc' = [pc EXCEPT ![t] = "l31"]
       ELSE /\ pc' = [pc EXCEPT ![t] = "l26"]
            /\ lock_k' = lock_k
    /\ UNCHANGED <<cacheVars, key, v, ret, err, invoked, prior, busy, parent, histVars>>

\* Lines 23-24 and 30: lock_map.get(&key); an existing small lock is cloned and
\* the guard of self.locker is dropped at the end of the block.
LockerGet(t) ==
    /\ pc[t] = "l23"
    /\ IF locker[key[t]] # None
       THEN /\ lock_k' = [lock_k EXCEPT ![t] = locker[key[t]]]
            /\ lockerHeld' = None
            /\ pc' = [pc EXCEPT ![t] = "l31"]
       ELSE /\ pc' = [pc EXCEPT ![t] = "l26"]
            /\ UNCHANGED <<lock_k, lockerHeld>>
    /\ UNCHANGED <<inner, innerReaders, innerWriter, locker, mutexes, key, v, ret, err,
                   invoked, prior, busy, parent, histVars>>

\* Lines 26-30: Arc::new(Mutex::new(())) is inserted into the map and returned;
\* the guard of self.locker is dropped at the end of the block.
LockerInsert(t) ==
    /\ pc[t] = "l26"
    /\ mutexes' = Append(mutexes, [owner |-> None, poisoned |-> FALSE])
    /\ locker' = [locker EXCEPT ![key[t]] = Len(mutexes) + 1]
    /\ lock_k' = [lock_k EXCEPT ![t] = Len(mutexes) + 1]
    /\ lockerHeld' = None
    /\ pc' = [pc EXCEPT ![t] = "l31"]
    /\ UNCHANGED <<inner, innerReaders, innerWriter, key, v, ret, err, invoked, prior, busy, parent,
                   histVars>>

\* Line 31 taking a small lock that another thread holds.
KeyLockNoWait(t) ==
    /\ pc[t] = "l31"
    /\ ~mutexes[lock_k[t]].poisoned
    /\ mutexes' = [mutexes EXCEPT ![lock_k[t]].owner = t]
    /\ pc' = [pc EXCEPT ![t] = "l32"]
    /\ UNCHANGED <<inner, innerReaders, innerWriter, locker, lockerHeld, key, lock_k,
                   v, ret, err, invoked, prior, busy, parent, histVars>>

\* Line 31: lock_k.lock().unwrap() on a mutex that is not poisoned.
KeyLock(t) ==
    /\ pc[t] = "l31"
    /\ mutexes[lock_k[t]].owner = None
    /\ ~mutexes[lock_k[t]].poisoned
    /\ mutexes' = [mutexes EXCEPT ![lock_k[t]].owner = t]
    /\ pc' = [pc EXCEPT ![t] = "l32"]
    /\ UNCHANGED <<inner, innerReaders, innerWriter, locker, lockerHeld, key, lock_k,
                   v, ret, err, invoked, prior, busy, parent, histVars>>

\* Line 31: lock() on a poisoned mutex acquires it and returns Err(PoisonError)
\* carrying the guard; unwrap() panics and the guard is dropped with the error.
KeyLockPoisoned(t) ==
    /\ pc[t] = "l31"
    /\ mutexes[lock_k[t]].owner = None
    /\ mutexes[lock_k[t]].poisoned
    /\ lock_k' = [lock_k EXCEPT ![t] = None]
    /\ err' = [err EXCEPT ![t] = "poison"]
    /\ pc' = [pc EXCEPT ![t] = "panicked"]
    /\ UNCHANGED <<cacheVars, key, v, ret, invoked, prior, busy, parent, histVars>>

\* Line 32 without the second read: the thread goes on to compute.
DoubleCheckOmitted(t) ==
    /\ pc[t] = "l32"
    /\ ReadLock(t)
    /\ pc' = [pc EXCEPT ![t] = "l34"]
    /\ UNCHANGED <<inner, innerWriter, locker, lockerHeld, mutexes, key, lock_k, v,
                   ret, err, invoked, prior, busy, parent, histVars>>

\* Line 32: the second read, under the small lock.
DoubleCheck(t) ==
    /\ pc[t] = "l32"
    /\ ReadLock(t)
    /\ IF Lookup(key[t]) # None
       THEN /\ v' = [v EXCEPT ![t] = Lookup(key[t])]
            /\ pc' = [pc EXCEPT ![t] = "l33"]
       ELSE /\ pc' = [pc EXCEPT ![t] = "l34"]
            /\ v' = v
    /\ UNCHANGED <<inner, innerWriter, locker, lockerHeld, mutexes, key, lock_k, ret,
                   err, invoked, prior, busy, parent, histVars>>

\* Line 33: return v; the read guard, then _lock_k and lock_k are dropped.
DoubleCheckReturn(t) ==
    /\ pc[t] = "l33"
    /\ ReadUnlock(t)
    /\ mutexes' = [mutexes EXCEPT ![lock_k[t]].owner = None]
    /\ lock_k' = [lock_k EXCEPT ![t] = None]
    /\ Returned(t, v[t])
    /\ pc' = [pc EXCEPT ![t] = "done"]
    /\ UNCHANGED <<inner, innerWriter, locker, lockerHeld, key, v, err, invoked, prior, busy, parent,
                   ncompute, nreturned, nfail, ncommit>>

\* Lines 34-35 with the read guard of line 32 alive while f runs.
ComputeStartKeepsReadGuard(t) ==
    /\ pc[t] = "l34"
    /\ pc' = [pc EXCEPT ![t] = "in_f"]
    /\ invoked' = [invoked EXCEPT ![t] = @ + 1]
    /\ ncompute' = [ncompute EXCEPT ![key[t]] = @ + 1]
    /\ UNCHANGED <<cacheVars, key, lock_k, v, ret, err, prior, busy, parent, nreturned, nfail,
                   ncommit, nret, firstRet>>

\* Lines 34-35: still absent; the read guard is dropped and f(key.clone()) is entered.
ComputeStart(t) ==
    /\ pc[t] = "l34"
    /\ ReadUnlock(t)
    /\ pc' = [pc EXCEPT ![t] = "in_f"]
    /\ invoked' = [invoked EXCEPT ![t] = @ + 1]
    /\ ncompute' = [ncompute EXCEPT ![key[t]] = @ + 1]
    /\ UNCHANGED <<inner, innerWriter, locker, lockerHeld, mutexes, key, lock_k, v,
                   ret, err, prior, busy, parent, nreturned, nfail, ncommit, nret, firstRet>>

\* The closure of thread t has called get_or_insert_with and that call has not
\* ended: the thread is executing the nested call, not the closure's own code.
InNestedCall(t) ==
    \E u \in Threads : parent[u] = t /\ pc[u] \notin {"idle", "done", "panicked"}

\* Line 35 with the guard of the small lock dropped as soon as f has returned.
ComputeReturnDropsKeyLock(t) ==
    /\ pc[t] = "in_f"
    /\ v' = [v EXCEPT ![t] = F(t, key[t])]
    /\ nreturned' = [nreturned EXCEPT ![key[t]] = @ + 1]
    /\ mutexes' = [mutexes EXCEPT ![lock_k[t]].owner = None]
    /\ pc' = [pc EXCEPT ![t] = "l36"]
    /\ UNCHANGED <<inner, innerReaders, innerWriter, locker, lockerHeld, key, lock_k,
                   ret, err, invoked, prior, busy, parent, ncompute, nfail, ncommit, nret,
                   firstRet>>

\* Line 35: f returns its value.
ComputeReturn(t) ==
    /\ pc[t] = "in_f"
    /\ ~InNestedCall(t)
    /\ v' = [v EXCEPT ![t] = F(t, key[t])]
    /\ nreturned' = [nreturned EXCEPT ![key[t]] = @ + 1]
    /\ pc' = [pc EXCEPT ![t] = "l36"]
    /\ UNCHANGED <<cacheVars, key, lock_k, ret, err, invoked, prior, busy, parent, ncompute, nfail,
                   ncommit, nret, firstRet>>

\* Line 35 with the small lock leaked when f panics: it stays held.
ComputePanicKeepsLock(t) ==
    /\ pc[t] = "in_f"
    /\ lock_k' = [lock_k EXCEPT ![t] = None]
    /\ err' = [err EXCEPT ![t] = "compute"]
    /\ nfail' = [nfail EXCEPT ![key[t]] = @ + 1]
    /\ pc' = [pc EXCEPT ![t] = "panicked"]
    /\ UNCHANGED <<cacheVars, key, v, ret, invoked, prior, busy, parent, ncompute, nreturned,
                   ncommit, nret, firstRet>>

\* Line 35: f panics; unwinding drops _lock_k, which releases and poisons the
\* small lock, and the panic leaves get_or_insert_with.
ComputePanic(t) ==
    /\ pc[t] = "in_f"
    /\ ~InNestedCall(t)
    /\ mutexes' = [mutexes EXCEPT ![lock_k[t]] = [owner |-> None, poisoned |-> TRUE]]
    /\ lock_k' = [lock_k EXCEPT ![t] = None]
    /\ err' = [err EXCEPT ![t] = "compute"]
    /\ nfail' = [nfail EXCEPT ![key[t]] = @ + 1]
    /\ pc' = [pc EXCEPT ![t] = "panicked"]
    /\ UNCHANGED <<inner, innerReaders, innerWriter, locker, lockerHeld, key, v, ret,
                   invoked, prior, busy, parent, ncompute, nreturned, ncommit, nret, firstRet>>

\* Line 36: self.inner.write(): granted when no reader and no writer holds the RwLock.
WriteLock(t) ==
    /\ pc[t] = "l36"
    /\ innerWriter = None
    /\ innerReaders = {}
    /\ innerWriter' = t
    /\ pc' = [pc EXCEPT ![t] = "l37"]
    /\ UNCHANGED <<inner, innerReaders, locker, lockerHeld, mutexes, key, lock_k, v,
                   ret, err, invoked, prior, busy, parent, histVars>>

\* Line 37: lock_map.insert(key.clone(), v.clone()).
Insert(t) ==
    /\ pc[t] = "l37"
    /\ inner' = [inner EXCEPT ![key[t]] = v[t]]
    /\ ncommit' = [ncommit EXCEPT ![key[t]] = @ + 1]
    /\ pc' = [pc EXCEPT ![t] = "l38"]
    /\ UNCHANGED <<innerReaders, innerWriter, locker, lockerHeld, mutexes, key, lock_k,
                   v, ret, err, invoked, prior, busy, parent, ncompute, nreturned, nfail, nret,
                   firstRet>>

\* Line 38 with the guard of the small lock leaked: the lock stays held.
CommitReturnKeepsKeyLock(t) ==
    /\ pc[t] = "l38"
    /\ innerWriter' = None
    /\ lock_k' = [lock_k EXCEPT ![t] = None]
    /\ Returned(t, v[t])
    /\ pc' = [pc EXCEPT ![t] = "done"]
    /\ UNCHANGED <<inner, innerReaders, locker, lockerHeld, mutexes, key, v, err,
                   invoked, prior, busy, parent, ncompute, nreturned, nfail, ncommit>>

\* Line 38: return v; the write guard (declared last), then _lock_k and lock_k
\* are dropped.
CommitReturn(t) ==
    /\ pc[t] = "l38"
    /\ innerWriter' = None
    /\ mutexes' = [mutexes EXCEPT ![lock_k[t]].owner = None]
    /\ lock_k' = [lock_k EXCEPT ![t] = None]
    /\ Returned(t, v[t])
    /\ pc' = [pc EXCEPT ![t] = "done"]
    /\ UNCHANGED <<inner, innerReaders, locker, lockerHeld, key, v, err, invoked,
                   prior, busy, parent, ncompute, nreturned, nfail, ncommit>>

\* The steps of get_or_insert_with in thread t, the closure apart.
CacheStep(t) ==
    \/ FastRead(t)
    \/ FastReturn(t)
    \/ FastMiss(t)
    \/ LockerLock(t)
    \/ LockerGet(t)
    \/ LockerInsert(t)
    \/ KeyLock(t)
    \/ KeyLockPoisoned(t)
    \/ DoubleCheck(t)
    \/ DoubleCheckReturn(t)
    \/ ComputeStart(t)
    \/ WriteLock(t)
    \/ Insert(t)
    \/ CommitReturn(t)

\* The closure of thread t ends, by returning or by panicking.
ComputeEnd(t) ==
    \/ ComputeReturn(t)
    \/ ComputePanic(t)

Next ==
    \E t \in Threads : Call(t) \/ CacheStep(t) \/ ComputeEnd(t)

Spec == Init /\ [][Next]_vars

\* Line 35, f calling back: the closure of thread t calls get_or_insert_with(k, g)
\* on the same cache.  The nested call runs on t's stack; its frame is u, and t
\* executes no code of its closure until the call of u has ended.  A Mutex<()>
\* does not know its owner, so lock() at line 31 on a lock t already holds
\* waits like any other lock() (std: "will not return").
NestedCall(t, u) ==
    /\ pc[t] = "in_f"
    /\ ~InNestedCall(t)
    /\ pc[u] = "idle"
    /\ parent' = [parent EXCEPT ![u] = t]
    /\ \E k \in Keys :
        /\ key' = [key EXCEPT ![u] = k]
        /\ prior' = [prior EXCEPT ![u] = firstRet[k]]
    /\ pc' = [pc EXCEPT ![u] = "l18"]
    /\ UNCHANGED <<cacheVars, histVars, lock_k, v, ret, err, invoked, busy>>

ReentrantNext ==
    \/ Next
    \/ \E t, u \in Threads : NestedCall(t, u)

\* The program when closures may call back into the cache.
ReentrantSpec == Init /\ [][ReentrantNext]_vars

\* Every thread inside get_or_insert_with keeps running, and every closure
\* ends, except that a closure for HungKey may block for ever.
FairSpec ==
    /\ Spec
    /\ \A t \in Threads : WF_vars(CacheStep(t))
    /\ \A t \in Threads : WF_vars(ComputeEnd(t) /\ key[t] # HungKey)

\* The steps of get_or_insert_with in thread t when no closure panics, so that
\* no small lock is ever poisoned.
TermStep(t) ==
    \/ FastRead(t)
    \/ FastReturn(t)
    \/ FastMiss(t)
    \/ LockerLock(t)
    \/ LockerGet(t)
    \/ LockerInsert(t)
    \/ KeyLock(t)
    \/ DoubleCheck(t)
    \/ DoubleCheckReturn(t)
    \/ ComputeStart(t)
    \/ WriteLock(t)
    \/ Insert(t)
    \/ CommitReturn(t)

TermNext ==
    \E t \in Threads : Call(t) \/ TermStep(t) \/ ComputeReturn(t)

\* Every closure returns a value, and every thread inside get_or_insert_with
\* keeps running.
TermSpec ==
    /\ Init /\ [][TermNext]_vars
    /\ \A t \in Threads : WF_vars(TermStep(t))
    /\ \A t \in Threads : WF_vars(ComputeReturn(t))

\* Every closure ends, by returning or by panicking, and every thread inside
\* get_or_insert_with keeps running.
LiveSpec ==
    /\ Spec
    /\ \A t \in Threads : WF_vars(CacheStep(t))
    /\ \A t \in Threads : WF_vars(ComputeEnd(t))

(***************************************************************************)
(* Claims                                                                  *)
(***************************************************************************)

\* The lines at which a thread holds the small lock of its key.
HoldingLines == {"l32", "l33", "l34", "in_f", "l36", "l37", "l38"}

\* The call of thread t has begun and has not ended.
Active(t) == pc[t] \notin {"idle", "done", "panicked"}

\* The call of thread t has ended, by returning or by unwinding.
Ended(t) == pc[t] \in {"done", "panicked"}

\* C1: when no closure fails, f is invoked at most once per key under every
\* interleaving, exactly once for every key some call has returned, and when
\* all threads have returned the invocations are one per distinct key requested.
C1_SingleComputation ==
    (\A k \in Keys : nfail[k] = 0) =>
        /\ \A k \in Keys : ncompute[k] <= 1
        /\ \A k \in Keys : nret[k] > 0 => ncompute[k] = 1
        /\ (\A t \in Threads : pc[t] = "done") =>
              \A k \in Keys :
                  ncompute[k] = IF \E t \in Threads : key[t] = k THEN 1 ELSE 0

\* C1 witness: all threads have returned, all began before any returned, every
\* key was requested, one of them by several threads, and f ran once per key.
C1_Witness ==
    /\ \A t \in Threads : pc[t] = "done" /\ prior[t] = None
    /\ \A k \in Keys : nret[k] >= 1 /\ ncompute[k] = 1
    /\ \E k \in Keys : nret[k] >= 2

\* C2: a call that begins after a call for the same key has returned stays on
\* the fast path, never invokes its closure, does not fail, and returns the
\* value the earlier call returned.
C2_SequentialNoDuplicate ==
    \A t \in Threads :
        prior[t] # None =>
            /\ pc[t] \in {"l18", "l19", "done"}
            /\ invoked[t] = 0
            /\ pc[t] = "l19" => v[t] = prior[t]
            /\ pc[t] = "done" => ret[t] = prior[t]

\* C2 witness: a call that began after another had returned has itself
\* returned the earlier value, which is not what its own closure yields.
C2_Witness ==
    \E t \in Threads :
        /\ prior[t] # None
        /\ pc[t] = "done"
        /\ ret[t] = prior[t]
        /\ ret[t] # F(t, key[t])

\* C3: while a closure for HungKey is running, and for ever if it never ends,
\* every call for another key ends.
C3_DisjointKeysComplete ==
    \A b \in Threads :
        (/\ \E a \in Threads : pc[a] = "in_f" /\ key[a] = HungKey
         /\ Active(b)
         /\ key[b] # HungKey)
            ~> Ended(b)

\* C3 witness: a closure for HungKey is running and the one other call, which
\* is for another key and began while the closure ran, has computed and
\* returned its own value.
C3_Witness ==
    \E a, b \in Threads :
        /\ pc[a] = "in_f" /\ key[a] = HungKey
        /\ busy /\ key[b] # HungKey
        /\ pc[b] = "done" /\ invoked[b] = 1 /\ ret[b] = F(b, key[b])
        /\ \A t \in Threads \ {a, b} : pc[t] = "idle"

\* C4, the state part: while thread a is inside its closure for a key, no other
\* call for that key is past line 31 or has ended; and a call that returns a
\* key another thread computed returns that thread's value without computing.
C4_SameKeyWaits ==
    \A a, w \in Threads :
        (a # w /\ key[a] = key[w] /\ key[a] # None) =>
            /\ pc[a] = "in_f" => pc[w] \in {"l18", "l20", "l22", "l23", "l26", "l31"}
            /\ (invoked[a] = 1 /\ pc[w] = "done") =>
                  (invoked[w] = 0 /\ ret[w] = F(a, key[a]))

\* C4: a waiter on the key being computed does not return before the closure
\* ends and then returns the computed value; and while a closure for HungKey
\* runs with another call waiting for HungKey at line 31, every call for
\* another key ends.
C4_ReadersBlockOnlyOnSameKey ==
    /\ []C4_SameKeyWaits
    /\ \A c \in Threads :
          (/\ \E a, w \in Threads :
                 /\ a # w
                 /\ pc[a] = "in_f" /\ key[a] = HungKey
                 /\ pc[w] = "l31" /\ key[w] = HungKey
           /\ Active(c)
           /\ key[c] # HungKey)
              ~> Ended(c)

\* C4 witness: a closure for HungKey is running, a second thread waits for the
\* small lock of HungKey, and the one other call, which is for another key and
\* began while the closure ran, has returned.
C4_Witness ==
    \E a, w, c \in Threads :
        /\ pc[a] = "in_f" /\ key[a] = HungKey
        /\ pc[w] = "l31" /\ key[w] = HungKey
        /\ busy /\ key[c] # HungKey /\ pc[c] = "done"
        /\ \A t \in Threads \ {a, w, c} : pc[t] = "idle"

\* C5: a call that has returned returns the value committed for its key; it
\* invoked its closure at most once; if it did, no call had returned the key
\* before, it is the only call that computed the key, and the value is its
\* closure's; if it did not, the value is that of the call that computed the
\* key.  A thread computes or commits only a key that has no value.
C5_Postcondition ==
    \A t \in Threads :
        /\ pc[t] \in {"in_f", "l36", "l37"} => inner[key[t]] = None
        /\ pc[t] = "done" =>
              /\ ret[t] # None
              /\ ret[t] = inner[key[t]]
              /\ invoked[t] <= 1
              /\ invoked[t] = 1 =>
                    /\ ret[t] = F(t, key[t])
                    /\ prior[t] = None
                    /\ \A u \in Threads \ {t} : key[u] = key[t] => invoked[u] = 0
              /\ invoked[t] = 0 =>
                    \E u \in Threads \ {t} :
                        key[u] = key[t] /\ invoked[u] = 1 /\ ret[t] = F(u, key[t])

\* C5 witness: for one key, one call has returned its own closure's value and
\* another has returned the same value without computing.
C5_Witness ==
    \E t, u \in Threads :
        /\ t # u /\ key[t] = key[u]
        /\ pc[t] = "done" /\ invoked[t] = 1 /\ ret[t] = F(t, key[t])
        /\ pc[u] = "done" /\ invoked[u] = 0 /\ ret[u] = ret[t]

\* C6: the step in which the closure of thread t panics leaves the value map,
\* its lock and the registry as they are, with no value for the key, releases
\* the small lock of the key, and unwinds thread t with the closure's panic.
C6_FailureLeavesStateUnchanged ==
    [][\A t \in Threads :
          (pc[t] = "in_f" /\ pc'[t] = "panicked") =>
              /\ inner' = inner
              /\ inner'[key[t]] = None
              /\ ncommit' = ncommit
              /\ innerReaders' = innerReaders /\ innerWriter' = innerWriter
              /\ locker' = locker /\ lockerHeld' = lockerHeld
              /\ mutexes[lock_k[t]].owner = t
              /\ mutexes'[lock_k[t]].owner = None
              /\ lock_k'[t] = None
              /\ err'[t] = "compute"]_vars

\* C6 witness: the closure of a thread has panicked; its key has no value and
\* the small lock of the key is free.
C6_Witness ==
    \E t \in Threads :
        /\ pc[t] = "panicked" /\ err[t] = "compute"
        /\ inner[key[t]] = None
        /\ mutexes[locker[key[t]]].owner = None

\* C7: a call fails only by the panic of its own closure: after a closure for
\* key k has panicked, the waiting and the later calls for k are not failed by
\* that panic.
C7_RetryAfterFailure ==
    \A t \in Threads : pc[t] = "panicked" => err[t] = "compute"

\* C8: whenever a call has observed a value for its key, at line 18 or line 32,
\* or has returned, the closure that computed the key has returned and its
\* insert has happened; the observed value is that closure's.
C8_ComputeBeforeObservation ==
    \A t \in Threads :
        (pc[t] \in {"l19", "l33", "done"}) =>
            /\ nreturned[key[t]] >= 1
            /\ ncommit[key[t]] >= 1
            /\ inner[key[t]] # None
            /\ \E w \in Threads :
                  /\ key[w] = key[t] /\ invoked[w] = 1
                  /\ pc[w] \in {"l38", "done"}
                  /\ v[t] = F(w, key[t])

\* C8 witness: a thread other than the one that computed the key has observed
\* the value on the fast path, and another on the second read.
C8_Witness ==
    \E t, u \in Threads :
        /\ pc[t] = "l19" /\ invoked[t] = 0
        /\ pc[u] = "l33" /\ invoked[u] = 0
        /\ key[t] = key[u]

\* C9, the state part: as many small locks were created as keys are in the
\* registry, no two keys share one, and every handle a thread obtained for
\* its key is the lock the registry holds for that key.
C9_OneLockPerKey ==
    /\ Len(mutexes) = Cardinality({k \in Keys : locker[k] # None})
    /\ \A k1, k2 \in Keys : (locker[k1] # None /\ locker[k1] = locker[k2]) => k1 = k2
    /\ \A t \in Threads : lock_k[t] # None => lock_k[t] = locker[key[t]]
    /\ \A t, u \in Threads :
          (lock_k[t] # None /\ lock_k[u] # None /\ key[t] = key[u]) => lock_k[t] = lock_k[u]

\* C9: one small lock per key in every state, and an entry of the registry is
\* never replaced or removed.
C9_KeyLockUniqueness ==
    /\ []C9_OneLockPerKey
    /\ [][\A k \in Keys : locker[k] # None => locker'[k] = locker[k]]_vars

\* C9 witness: two threads that began before any call returned hold handles
\* of the same small lock for the same key.
C9_Witness ==
    \E t, u \in Threads :
        /\ t # u /\ key[t] = key[u]
        /\ prior[t] = None /\ prior[u] = None
        /\ pc[t] = "l31" /\ pc[u] = "l31"
        /\ lock_k[t] # None /\ lock_k[t] = lock_k[u]

\* C10: for every key at most one thread is between taking and releasing the
\* small lock of the key, that thread is the owner of the lock, and at most one
\* thread is inside the closure for the key.
C10_PerKeyMutualExclusion ==
    \A k \in Keys :
        /\ Cardinality({t \in Threads : key[t] = k /\ pc[t] \in HoldingLines}) <= 1
        /\ Cardinality({t \in Threads : key[t] = k /\ pc[t] = "in_f"}) <= 1
        /\ \A t \in Threads :
              (key[t] = k /\ pc[t] \in HoldingLines) =>
                  (lock_k[t] # None /\ mutexes[lock_k[t]].owner = t)

\* C10 witness: one thread is inside the closure for a key while another
\* waits at line 31 for the lock of the same key.
C10_Witness ==
    \E t, u \in Threads :
        /\ key[t] = key[u]
        /\ pc[t] = "in_f"
        /\ pc[u] = "l31"
        /\ mutexes[lock_k[u]].owner = t

\* C11: the guard of self.locker is held only by a thread at lines 23-30: a
\* thread waiting for a small lock, holding one or inside its closure does
\* not hold it, and a thread at lines 23-30 does.
C11_RegistryMutexOnlyInBlock ==
    /\ lockerHeld # None => pc[lockerHeld] \in {"l23", "l26"}
    /\ \A t \in Threads :
          /\ pc[t] \in {"l23", "l26"} => lockerHeld = t
          /\ pc[t] \in ({"l31"} \cup HoldingLines) => lockerHeld # t

\* C11 witness: while one thread is inside its closure and another waits for
\* the small lock of the same key, a third holds the guard of self.locker.
C11_Witness ==
    \E t, u, w \in Threads :
        /\ pc[t] = "in_f"
        /\ pc[u] = "l31" /\ key[u] = key[t]
        /\ pc[w] \in {"l23", "l26"} /\ lockerHeld = w

\* C12: a thread inside its closure owns the small lock of its key, which is
\* the lock the registry holds for the key, and holds neither a read guard
\* nor the write guard of self.inner; a thread holds the write guard only at
\* lines 37-38, after its closure has returned.
C12_ComputeOutsideStoreLock ==
    \A t \in Threads :
        /\ pc[t] = "in_f" =>
              /\ t \notin innerReaders
              /\ innerWriter # t
              /\ lock_k[t] # None
              /\ lock_k[t] = locker[key[t]]
              /\ mutexes[lock_k[t]].owner = t
        /\ innerWriter = t => (pc[t] \in {"l37", "l38"} /\ nreturned[key[t]] >= 1)
        /\ t \in innerReaders => pc[t] \in {"l19", "l20", "l33", "l34"}

\* C12 witness: one thread is inside its closure while another holds the write
\* guard of self.inner.
C12_Witness ==
    \E t, u \in Threads :
        /\ pc[t] = "in_f"
        /\ pc[u] = "l37" /\ innerWriter = u

\* C13, the state part: at most one insert per key, and a key has a value
\* exactly when its insert has happened.
C13_OneCommitPerKey ==
    \A k \in Keys :
        /\ ncommit[k] <= 1
        /\ inner[k] # None <=> ncommit[k] = 1

\* C13: a key that maps to a value maps to the same value after every step,
\* and at most one insert is performed per key.
C13_WriteOnce ==
    /\ []C13_OneCommitPerKey
    /\ [][\A k \in Keys : inner[k] # None => inner'[k] = inner[k]]_vars

\* C13 witness: every key has its value, and a thread that took the small
\* lock of a key after the insert is about to return the value it found.
C13_Witness ==
    /\ \A k \in Keys : inner[k] # None /\ ncommit[k] = 1
    /\ \E t \in Threads : pc[t] = "l33" /\ v[t] = inner[key[t]] /\ v[t] # F(t, key[t])

\* C14: a thread on the fast path (lines 18-19) holds no handle, no small lock
\* and not the guard of self.locker, and each of its steps, from the call to
\* the return from line 19, leaves the registry, its mutex, the small locks
\* and the value map as they are.
C14_FastPathFrame ==
    /\ [](\A t \in Threads :
            pc[t] \in {"l18", "l19"} =>
                /\ lock_k[t] = None
                /\ lockerHeld # t
                /\ \A h \in DOMAIN mutexes : mutexes[h].owner # t)
    /\ [][\A t \in Threads :
            (/\ pc[t] \in {"idle", "l18", "l19"}
             /\ pc'[t] \in {"l18", "l19", "done"}
             /\ pc'[t] # pc[t]) =>
                /\ locker' = locker
                /\ lockerHeld' = lockerHeld
                /\ mutexes' = mutexes
                /\ inner' = inner
                /\ innerWriter' = innerWriter
                /\ lock_k'[t] = None]_vars

\* C14 witness: a call has returned from line 19 a value another thread
\* computed, while the registry holds no lock for another key.
C14_Witness ==
    \E t \in Threads :
        /\ pc[t] = "done" /\ prior[t] # None /\ ret[t] = inner[key[t]]
        /\ \E k \in Keys : locker[k] = None
        /\ \E u \in Threads : pc[u] = "l19" /\ key[u] = key[t]

\* A call in progress that cannot take a step until another thread acts.
Blocked(t) == Active(t) /\ ~ENABLED (CacheStep(t) \/ ComputeEnd(t))

\* Suspension point (a): a reader at line 18 or 32 behind the writer of lines 36-38.
ReaderBehindWriter(t) ==
    /\ pc[t] \in {"l18", "l32"}
    /\ innerWriter \in Threads \ {t}
    /\ pc[innerWriter] \in {"l37", "l38"}

\* Suspension point (b): at line 31 behind the thread that owns the small lock
\* of the same key and is at lines 32-38.
WaitingOnKeyLock(t) ==
    /\ pc[t] = "l31"
    /\ mutexes[lock_k[t]].owner \in Threads \ {t}
    /\ key[mutexes[lock_k[t]].owner] = key[t]
    /\ pc[mutexes[lock_k[t]].owner] \in HoldingLines

\* A further suspension point: at line 22 behind the holder of self.locker.
WaitingOnRegistry(t) ==
    /\ pc[t] = "l22"
    /\ lockerHeld \in Threads \ {t}
    /\ pc[lockerHeld] \in {"l23", "l26"}

\* A further suspension point: the writer at line 36 behind readers of
\* self.inner or behind another writer.
WriterBehindOthers(t) ==
    /\ pc[t] = "l36"
    /\ \/ innerReaders \ {t} # {}
       \/ innerWriter \in Threads \ {t}

\* C15 as stated: a blocked call is a reader behind a writer or waits on the
\* small lock of its key; there is no other blocked state.
C15_TwoSuspensionPoints ==
    \A t \in Threads : Blocked(t) => ReaderBehindWriter(t) \/ WaitingOnKeyLock(t)

\* C15 amended: at all times a blocked call is at one of four points: a
\* reader behind a writer, a waiter on the small lock of its key, a waiter on
\* the mutex of self.locker, or the writer at line 36 behind readers or
\* another writer; at each of the four the call is blocked, and in every
\* other state it can step.
C15_FourSuspensionPoints ==
    [](\A t \in Threads :
          Blocked(t) <=>
              \/ ReaderBehindWriter(t)
              \/ WaitingOnKeyLock(t)
              \/ WaitingOnRegistry(t)
              \/ WriterBehindOthers(t))

\* C15 witness: a call is blocked at line 22 behind the holder of self.locker,
\* and that holder works on another key.
C15_Witness ==
    \E t \in Threads :
        /\ Blocked(t) /\ WaitingOnRegistry(t)
        /\ key[lockerHeld] # key[t]

\* C17: when a closure for a key has returned and the small lock of the key is
\* free, the key has its value; a thread that holds the small lock and finds
\* the key absent is the first to get that far, so a later owner of the lock
\* returns the value from line 33 without entering its closure.
C17_CommitBeforeRelease ==
    /\ \A k \in Keys :
          (/\ nreturned[k] >= 1
           /\ locker[k] # None
           /\ mutexes[locker[k]].owner = None) => inner[k] # None
    /\ \A t \in Threads :
          /\ pc[t] = "l34" => nreturned[key[t]] = 0
          /\ (pc[t] \in {"l32", "l33", "l34"} /\ nreturned[key[t]] >= 1 /\ invoked[t] = 0) =>
                /\ inner[key[t]] # None
                /\ pc[t] # "l34"

\* C17 witness: a thread that saw the key absent at line 18 took the small
\* lock after the winner released it and is about to return the winner's
\* value without having entered its closure.
C17_Witness ==
    \E t \in Threads :
        /\ pc[t] = "l33"
        /\ invoked[t] = 0
        /\ prior[t] = None
        /\ v[t] = inner[key[t]]
        /\ mutexes[lock_k[t]].owner = t

\* C16: when every closure returns and threads are scheduled fairly, in every
\* state with a call in progress some call in progress can step, every call
\* that began returns, and a call waiting at line 31 gets the small lock.
C16_DeadlockFreeAndTerminates ==
    /\ []((\E t \in Threads : Active(t)) =>
            \E t \in Threads : Active(t) /\ ENABLED (TermStep(t) \/ ComputeReturn(t)))
    /\ \A t \in Threads : Active(t) ~> pc[t] = "done"
    /\ \A t \in Threads : pc[t] = "l31" ~> pc[t] = "l32"

\* C16 witness: every thread has returned from a call for the same key, one of
\* them after waiting without a value seen at line 18 and without computing.
C16_Witness ==
    /\ \A t \in Threads : pc[t] = "done" /\ key[t] = HungKey
    /\ \E t \in Threads : prior[t] = None /\ invoked[t] = 0
    /\ \A h \in DOMAIN mutexes : mutexes[h].owner = None /\ ~mutexes[h].poisoned

\* C18: a closure that panics leaves the registry, its mutex, the locks of
\* self.inner, the value map and every small lock but that of its key as they
\* were; a call unwinds from line 31 only when a closure for its own key has
\* panicked; and once a closure for some other key has panicked, a call in
\* progress still returns, with the value of its key, unless a closure for its
\* own key panics as well.
C18_FailureIsolation ==
    /\ [][\A t \in Threads :
            (pc[t] = "in_f" /\ pc'[t] = "panicked") =>
                /\ locker' = locker
                /\ lockerHeld' = lockerHeld
                /\ inner' = inner
                /\ innerReaders' = innerReaders
                /\ innerWriter' = innerWriter
                /\ \A h \in DOMAIN mutexes :
                      h # lock_k[t] => mutexes'[h] = mutexes[h]]_vars
    /\ [](\A t \in Threads :
            /\ pc[t] = "panicked" => nfail[key[t]] >= 1
            /\ pc[t] = "done" => (ret[t] # None /\ ret[t] = inner[key[t]]))
    /\ \A t \in Threads :
          (Active(t) /\ \E k \in Keys \ {key[t]} : nfail[k] >= 1)
              ~> (pc[t] = "done" \/ (key[t] # None /\ nfail[key[t]] >= 1))

\* C18 witness: a closure panicked for one key; for the other key, whose
\* closures never panicked, one call computed and returned after the panic's
\* thread unwound and a later call returned the value from line 19.
C18_Witness ==
    \E t, u, w \in Threads :
        /\ pc[t] = "panicked" /\ err[t] = "compute"
        /\ pc[u] = "done" /\ invoked[u] = 1
        /\ key[u] # key[t] /\ nfail[key[u]] = 0
        /\ pc[w] = "done" /\ key[w] = key[u] /\ prior[w] # None /\ ret[w] = ret[u]

\* C19: when the closure of a call for a key calls get_or_insert_with for the
\* same key, the key is absent for the nested call, which goes the slow path,
\* gets from the registry the lock the outer call holds and stops at line 31:
\* it never returns and never unwinds, and the closure of the outer call
\* never ends.
C19_SameKeyReentrancyDeadlocks ==
    \A t, u \in Threads :
        (parent[u] = t /\ key[u] = key[t]) =>
            /\ pc[t] = "in_f"
            /\ ~ENABLED ComputeEnd(t)
            /\ inner[key[u]] = None
            /\ mutexes[lock_k[t]].owner = t
            /\ pc[u] \in {"l18", "l20", "l22", "l23", "l31"}
            /\ ret[u] = None
            /\ pc[u] = "l31" =>
                  /\ lock_k[u] = lock_k[t]
                  /\ ~ENABLED (CacheStep(u) \/ ComputeEnd(u))

\* C19 witness: the nested call for the same key is stuck at line 31 on the
\* lock its own thread holds, and no other thread is inside a call.
C19_Witness ==
    \E t, u \in Threads :
        /\ parent[u] = t /\ key[u] = key[t]
        /\ pc[t] = "in_f" /\ pc[u] = "l31"
        /\ lock_k[u] = lock_k[t]
        /\ \A w \in Threads \ {t, u} : ~Active(w)

====
